---- MODULE Spec2Model ----
(***************************************************************************)
(* Model of automol/graph/_geom2.py (heuristic z-matrix construction) and  *)
(* of the graph accessors of automol/graph/_graph_base.py it relies on.    *)
(*                                                                         *)
(* Units: distances are in tenths of an angstrom (1.5 A = 15), angles in   *)
(* 1e-4 degree (109.4712 deg = 1094712, 180 deg = 1800000).                *)
(* The functions of the module are pure; every action below is one call    *)
(* of one public function on inputs drawn from bounded sets, and leaves    *)
(* the call (fn, arg) and the way it ended (out) in the state.             *)
(***************************************************************************)
EXTENDS Integers, Sequences, FiniteSets, TLC

VARIABLES fn, arg, out, raised

vars == <<fn, arg, out, raised>>

-----------------------------------------------------------------------------
(* Bounds of the model *)

NumAtoms == 8
HeurKeys == 3
MaxChainLen == 4
MaxRingLen == 6
MaxArcInner == 2
MaxArcs == 2
MaxHyb == 4

-----------------------------------------------------------------------------
(* Module constants of _geom2.py and _graph_base.py *)

XY_DIST == 15
XH_DIST == 11
TET_ANG == 1094712
TRI_ANG == 1200000
LIN_ANG == 1800000
TRA_DIH == 1800000
ATM_SYM_POS == 0

\* Python's None, for a key, a row or a value that is not set
None == -1

-----------------------------------------------------------------------------
(* How a call ends: a returned value, or the exception that reaches the    *)
(* caller.                                                                 *)

Ok(v) == [status |-> "ok", val |-> v]
Raise(e) == [status |-> e, val |-> None]

-----------------------------------------------------------------------------
(* _graph_base.py: a graph is the pair (atm_dct, bnd_dct)                  *)

atoms(xgr) == xgr.atm_dct
bonds(xgr) == xgr.bnd_dct
atom_keys(xgr) == DOMAIN atoms(xgr)
bond_keys(xgr) == DOMAIN bonds(xgr)
atom_symbols(xgr) == [k \in atom_keys(xgr) |-> atoms(xgr)[k][ATM_SYM_POS + 1]]

\* automol.graph._graph.atom_neighbor_keys: key -> the keys bonded to it
atom_neighbor_keys(xgr) ==
    [k \in atom_keys(xgr) |-> {j \in atom_keys(xgr) : {j, k} \in bond_keys(xgr)}]

\* automol.graph._res.resonance_dominant_atom_hybridizations: the external
\* classification of each atom, carried with the graph it was computed for
resonance_dominant_atom_hybridizations(gra) == gra.hyb_dct

\* qcelemental periodictable.to_Z on the symbols the graphs below use
to_Z(sym) == IF sym = "H" THEN 1 ELSE IF sym = "C" THEN 6 ELSE 8

-----------------------------------------------------------------------------
(* Heuristic parameter model *)

heuristic_bond_distance(gra, key1, key2, check) ==
    IF check /\ key1 \notin atom_neighbor_keys(gra)[key2]
    THEN Raise("AssertionError")
    ELSE LET sym_dct == atom_symbols(gra)
             sym1 == sym_dct[key1]
             sym2 == sym_dct[key2]
         IN  IF to_Z(sym1) = 1 \/ to_Z(sym2) = 1
             THEN Ok(XH_DIST)
             ELSE Ok(XY_DIST)

heuristic_bond_angle_unchecked_else(gra, key1, key2, key3, check) ==
    IF check /\ ~({key1, key3} \subseteq atom_neighbor_keys(gra)[key2])
    THEN Raise("AssertionError")
    ELSE LET hyb2 == resonance_dominant_atom_hybridizations(gra)[key2]
         IN  IF hyb2 = 3 THEN Ok(TET_ANG)
             ELSE IF hyb2 = 2 THEN Ok(TRI_ANG)
             ELSE Ok(LIN_ANG)

heuristic_bond_angle(gra, key1, key2, key3, check) ==
    IF check /\ ~({key1, key3} \subseteq atom_neighbor_keys(gra)[key2])
    THEN Raise("AssertionError")
    ELSE LET hyb_dct == resonance_dominant_atom_hybridizations(gra)
             hyb2 == hyb_dct[key2]
         IN  IF hyb2 = 3 THEN Ok(TET_ANG)
             ELSE IF hyb2 = 2 THEN Ok(TRI_ANG)
             ELSE IF hyb2 # 1 THEN Raise("AssertionError")
             ELSE Ok(LIN_ANG)

-----------------------------------------------------------------------------
(* Ring-closure angle.  scipy's root_scalar is outside the repository: its *)
(* outcome sol is an input, [converged |-> BOOLEAN, root |-> theta], with  *)
(* the root already converted to 1e-4 degree.  The result also records     *)
(* whether the solver was entered.                                         *)

ring_arc_bond_angle_ge(num, end_dist, bond_dist, sol) ==
    IF end_dist >= (num - 1) * bond_dist
    THEN [status |-> "ok", val |-> 1800000, solver |-> FALSE]
    ELSE IF ~sol.converged
    THEN [status |-> "AssertionError", val |-> None, solver |-> TRUE]
    ELSE [status |-> "ok", val |-> 1800000 - (sol.root \div (num - 1)),
          solver |-> TRUE]

ring_arc_bond_angle(num, end_dist, bond_dist, sol) ==
    IF end_dist > (num - 1) * bond_dist
    THEN [status |-> "ok", val |-> 1800000, solver |-> FALSE]
    ELSE IF ~sol.converged
    THEN [status |-> "AssertionError", val |-> None, solver |-> TRUE]
    ELSE [status |-> "ok", val |-> 1800000 - (sol.root \div (num - 1)),
          solver |-> TRUE]

-----------------------------------------------------------------------------
(* automol.zmat, of which only the calls are in these files.  A z-matrix   *)
(* is the sequence of its rows; a row holds the symbol, the three          *)
(* reference rows (key_row) and the three values (val_row) it was appended *)
(* with.                                                                   *)

count(zma) == Len(zma)

add_atom(zma, sym, key_row, val_row) ==
    Append(zma, [sym |-> sym, key_row |-> key_row, val_row |-> val_row])

\* zma2's first atom is the atom rep1_key of zma1; the other rows of zma2
\* follow the rows of zma1, re-anchored by key_mat and val_mat
join_replace_one(zma1, zma2, rep1_key, key_mat, val_mat) ==
    LET rep2_key == count(zma1) - 1
        shift(k) == IF k = None THEN None
                    ELSE IF k = 0 THEN rep1_key
                    ELSE k + rep2_key
        moved(i) == [j \in 1..3 |-> shift(zma2[i + 1].key_row[j])]
        keys2(i) == IF i = 1 THEN <<moved(i)[1], key_mat[1][1], key_mat[1][2]>>
                    ELSE IF i = 2 THEN <<moved(i)[1], moved(i)[2], key_mat[2][1]>>
                    ELSE moved(i)
        vals2(i) == LET v == zma2[i + 1].val_row
                    IN  IF i = 1 THEN <<v[1], val_mat[1][1], val_mat[1][2]>>
                        ELSE IF i = 2 THEN <<v[1], v[2], val_mat[2][1]>>
                        ELSE v
    IN  zma1 \o [i \in 1..(Len(zma2) - 1) |->
                   [sym |-> zma2[i + 1].sym, key_row |-> keys2(i),
                    val_row |-> vals2(i)]]

-----------------------------------------------------------------------------
(* Python dictionaries and tuples *)

EmptyDict == [k \in {} |-> None]

dict_set(dct, key, val) ==
    [k \in (DOMAIN dct) \cup {key} |-> IF k = key THEN val ELSE dct[k]]

\* dict(zip(keys, vals)): a later pair overrides an earlier one
dict_zip(keys, vals) ==
    [k \in {keys[i] : i \in 1..Len(keys)} |->
        vals[CHOOSE i \in 1..Len(keys) :
                /\ keys[i] = k
                /\ \A j \in 1..Len(keys) : keys[j] = k => j <= i]]

\* tuple(map(dct.__getitem__, keys))
getitems(dct, keys) == [i \in 1..Len(keys) |-> dct[keys[i]]]

\* keys.index(key): the 0-based position of the first occurrence
index(keys, key) ==
    (CHOOSE i \in 1..Len(keys) :
        /\ keys[i] = key
        /\ \A j \in 1..Len(keys) : keys[j] = key => i <= j) - 1

-----------------------------------------------------------------------------
(* The rolling window of both builders *)

shift_keys_keep_first(key1, key2, key3, key4) == <<key1, key3, key4>>

\* key1, key2, key3 = key2, key3, key4
shift_keys(key1, key2, key3, key4) == <<key2, key3, key4>>

-----------------------------------------------------------------------------
(* chain_zmatrix.  st holds the locals; st.status is "ok" until a          *)
(* heuristic raises, and then names the exception.                         *)

chain_start ==
    [zma |-> <<>>, row_dct |-> EmptyDict,
     key1 |-> None, key2 |-> None, key3 |-> None,
     row1 |-> None, row2 |-> None, row3 |-> None,
     r34 |-> None, a234 |-> None, d1234 |-> None, status |-> "ok"]

\* one pass of the for loop
chain_body(gra, st, key4) ==
    LET sym_dct == atom_symbols(gra)
        row_dct == dict_set(st.row_dct, key4, count(st.zma))
        st0 == [st EXCEPT !.row_dct = row_dct]
        dist == heuristic_bond_distance(gra, st.key3, key4, TRUE)
        st1 == IF st.key3 # None
               THEN [st0 EXCEPT !.row3 = row_dct[st.key3], !.r34 = dist.val]
               ELSE st0
        ang == heuristic_bond_angle(gra, st.key2, st.key3, key4, TRUE)
        st2 == IF st.key2 # None
               THEN [st1 EXCEPT !.row2 = row_dct[st.key2], !.a234 = ang.val]
               ELSE st1
        st3 == IF st.key1 # None
               THEN [st2 EXCEPT !.row1 = row_dct[st.key1], !.d1234 = TRA_DIH]
               ELSE st2
        win == shift_keys(st.key1, st.key2, st.key3, key4)
    IN  IF st.key3 # None /\ dist.status # "ok"
        THEN [st0 EXCEPT !.status = dist.status]
        ELSE IF st.key2 # None /\ ang.status # "ok"
        THEN [st1 EXCEPT !.status = ang.status]
        ELSE [st3 EXCEPT
                !.zma = add_atom(st.zma, sym_dct[key4],
                                 <<st3.row3, st3.row2, st3.row1>>,
                                 <<st3.r34, st3.a234, st3.d1234>>),
                !.key1 = win[1], !.key2 = win[2], !.key3 = win[3]]

RECURSIVE chain_loop(_, _, _, _)
chain_loop(gra, chain_keys, i, st) ==
    IF i > Len(chain_keys) \/ st.status # "ok" THEN st
    ELSE chain_loop(gra, chain_keys, i + 1, chain_body(gra, st, chain_keys[i]))

\* the result: zma and rows as returned (rows is None when it raised), and
\* row_dct as it was when the function was left
chain_zmatrix(gra, chain_keys) ==
    LET st == chain_loop(gra, chain_keys, 1, chain_start)
    IN  [status |-> st.status, zma |-> st.zma, row_dct |-> st.row_dct,
         rows |-> IF st.status = "ok" THEN getitems(st.row_dct, chain_keys)
                  ELSE <<>>]

-----------------------------------------------------------------------------
(* ring_zmatrix *)

ring_start(bond_dist, bond_ang) ==
    [zma |-> <<>>, row_dct |-> EmptyDict,
     key1 |-> None, key2 |-> None, key3 |-> None,
     row1 |-> None, row2 |-> None, row3 |-> None,
     r34 |-> bond_dist, a234 |-> bond_ang, d1234 |-> 0, status |-> "ok"]

ring_body(gra, st, key4) ==
    LET sym_dct == atom_symbols(gra)
        row_dct == dict_set(st.row_dct, key4, count(st.zma))
        st0 == [st EXCEPT !.row_dct = row_dct]
        st1 == IF st.key3 # None THEN [st0 EXCEPT !.row3 = row_dct[st.key3]]
               ELSE st0
        st2 == IF st.key2 # None THEN [st1 EXCEPT !.row2 = row_dct[st.key2]]
               ELSE st1
        st3 == IF st.key1 # None THEN [st2 EXCEPT !.row1 = row_dct[st.key1]]
               ELSE st2
        win == shift_keys(st.key1, st.key2, st.key3, key4)
    IN  [st3 EXCEPT
            !.zma = add_atom(st.zma, sym_dct[key4],
                             <<st3.row3, st3.row2, st3.row1>>,
                             <<st3.r34, st3.a234, st3.d1234>>),
            !.key1 = win[1], !.key2 = win[2], !.key3 = win[3]]

RECURSIVE ring_loop(_, _, _, _)
ring_loop(gra, ring_keys, i, st) ==
    IF i > Len(ring_keys) THEN st
    ELSE ring_loop(gra, ring_keys, i + 1, ring_body(gra, st, ring_keys[i]))

ring_zmatrix(gra, ring_keys, bond_dist, end_dist, sol) ==
    LET num == Len(ring_keys)
        bond_ang == ring_arc_bond_angle(num, end_dist, bond_dist, sol)
        st == ring_loop(gra, ring_keys, 1, ring_start(bond_dist, bond_ang.val))
    IN  IF bond_ang.status # "ok"
        THEN [status |-> bond_ang.status, zma |-> <<>>, rows |-> <<>>,
              bond_ang |-> None]
        ELSE [status |-> "ok", zma |-> st.zma,
              rows |-> getitems(st.row_dct, ring_keys),
              bond_ang |-> bond_ang.val]

-----------------------------------------------------------------------------
(* ring_system_zmatrix.  automol.zmat.distance and central_angle measure   *)
(* a geometry; what they return (end_dist, ang1) is an input, as are the   *)
(* two outcomes of the root solver.  The result records the locals when    *)
(* the function is left: the composite zma, the rows handed to the splice, *)
(* how many arcs were merged into zma, and what is returned to the caller  *)
(* (ret.given is FALSE when the function returns None).                    *)

splice_rows_first(ring_keys, end_keys) ==
    LET row3 == index(ring_keys, end_keys[1])
        row2 == index(ring_keys, end_keys[2])
    IN  [row3 |-> row3, row2 |-> row2,
         row1 |-> IF row3 > 0 THEN row3 - 1 ELSE row3 + 1]

\* key3, key2, row3, row2, row1 of the splice
splice_rows(ring_keys, end_keys) ==
    LET key3 == end_keys[1]
        key2 == end_keys[2]
        row3 == index(ring_keys, key3)
        row2 == index(ring_keys, key2)
    IN  [row3 |-> row3, row2 |-> row2,
         row1 |-> IF row2 > 0 THEN row2 - 1 ELSE row2 + 1]

NoRows == [row3 |-> None, row2 |-> None, row1 |-> None]
NoReturn == [given |-> FALSE, zma |-> <<>>]

rsys_left(status, zma, merged, rows) ==
    [status |-> status, zma |-> zma, merged |-> merged, rows |-> rows,
     ret |-> NoReturn]

ring_system_zmatrix(gra, ring_system_decomp_keys, sol1, end_dist, sol2, ang1) ==
    IF Len(ring_system_decomp_keys) < 1
    THEN rsys_left("StopIteration", <<>>, 0, NoRows)
    ELSE
    LET ring_keys == ring_system_decomp_keys[1]
        ring == ring_zmatrix(gra, ring_keys, XY_DIST, XY_DIST, sol1)
    IN
    IF ring.status # "ok"
    THEN rsys_left(ring.status, <<>>, 0, NoRows)
    ELSE IF Len(ring_system_decomp_keys) < 2
    THEN rsys_left("StopIteration", ring.zma, 0, NoRows)
    ELSE
    LET row_dct == dict_zip(ring_keys, ring.rows)
        arc_keys == ring_system_decomp_keys[2]
        end_keys == <<arc_keys[1], arc_keys[Len(arc_keys)]>>
    IN
    IF ~({end_keys[1], end_keys[2]} \subseteq DOMAIN row_dct)
    THEN rsys_left("KeyError", ring.zma, 0, NoRows)
    ELSE
    LET arc == ring_zmatrix(gra, arc_keys, XY_DIST, end_dist, sol2)
    IN
    IF arc.status # "ok"
    THEN rsys_left(arc.status, ring.zma, 0, NoRows)
    ELSE
    LET dih1 == 900000
        dih2 == 0
        rows == splice_rows(ring_keys, end_keys)
        row_mat == << <<rows.row2, rows.row1>>, <<rows.row2>> >>
        val_mat == << <<ang1, dih1>>, <<dih2>> >>
        zma == join_replace_one(ring.zma, arc.zma, rows.row3, row_mat, val_mat)
    IN  rsys_left("ok", zma, 1, rows)

-----------------------------------------------------------------------------
(* The inputs *)

Keys == 0..(NumAtoms - 1)
SmallKeys == 0..HeurKeys

\* Bonds of the graphs: the cycle 0-1-...-(NumAtoms-1)-0, whole or with the
\* bond 1-2 missing
CycleBonds == {{k, (k + 1) % NumAtoms} : k \in Keys}
BondChoices == {CycleBonds, CycleBonds \ {{1, 2}}}

\* Hybridizations: the same for every atom, or changing along the keys
HybChoices ==
    {[k \in Keys |-> h] : h \in 0..MaxHyb} \cup {[k \in Keys |-> k % (MaxHyb + 1)]}

\* Symbols: all carbon, or a hydrogen at key 3
SymChoices == {[k \in Keys |-> "C"], [k \in Keys |-> IF k = 3 THEN "H" ELSE "C"]}

MkGraph(syms, bnds, hybs) ==
    [atm_dct |-> [k \in Keys |-> <<syms[k], 0, "None">>],
     bnd_dct |-> [b \in bnds |-> <<1, "None">>],
     hyb_dct |-> hybs]

Graphs == {MkGraph(s, b, h) : s \in SymChoices, b \in BondChoices, h \in HybChoices}

\* the ring builders read nothing of a graph but its symbols
RingGraphs == {MkGraph(s, CycleBonds, [k \in Keys |-> 2]) : s \in SymChoices}

\* key sequences of a chain, with or without repeated keys
ChainSeqs == UNION {[1..n -> SmallKeys] : n \in 1..MaxChainLen}

\* n distinct keys, from key s on, up or down
RingSeq(n, s, d) == [i \in 1..n |-> (s + d * (i - 1)) % NumAtoms]
RingSeqs == {RingSeq(n, s, d) : n \in 1..MaxRingLen, s \in {0, 3},
                                d \in {1, NumAtoms - 1}}

SeqKeys(seq) == {seq[i] : i \in 1..Len(seq)}
Distinct(seq) == \A i, j \in 1..Len(seq) : seq[i] = seq[j] => i = j

\* the m smallest keys of S, in order
Smallest(S, m) ==
    [i \in 1..m |-> CHOOSE k \in S : Cardinality({j \in S : j < k}) = i - 1]

\* an arc from e1 to e2 over m keys that are neither in the ring nor an end
Arc(ring_keys, e1, e2, m) ==
    <<e1>> \o Smallest(Keys \ (SeqKeys(ring_keys) \cup {e1, e2}), m) \o <<e2>>

\* a primary ring, then k arcs: the first any arc, the later ones the arc
\* closing the ring between its last and its first key
Decomps ==
    LET Rings == {RingSeq(n, 0, d) : n \in 3..MaxRingLen, d \in {1, NumAtoms - 1}}
        Ends(r) == SeqKeys(r) \cup {NumAtoms - 1}
        EndPairs(r) == {p \in Ends(r) \X Ends(r) : p[1] # p[2]}
        Free(r, p) == Keys \ (SeqKeys(r) \cup {p[1], p[2]})
        Shapes(r) == {q \in EndPairs(r) \X (0..MaxArcInner) :
                        q[2] <= Cardinality(Free(r, q[1]))}
        Arcs(r) == {Arc(r, q[1][1], q[1][2], q[2]) : q \in Shapes(r)}
        Later(r, k) == [j \in 1..(k - 1) |-> <<r[Len(r)], r[1]>>]
    IN  {<<r>> : r \in Rings}
        \cup UNION {{<<r, a>> \o Later(r, k) : a \in Arcs(r), k \in 1..MaxArcs} :
                        r \in Rings}

Distances == {XY_DIST, 2 * XY_DIST, 3 * XY_DIST}
BondDists == {XH_DIST, XY_DIST}
SolverRoots == {2400000, 3000000}
Sols == {[converged |-> TRUE, root |-> r] : r \in SolverRoots}
        \cup {[converged |-> FALSE, root |-> 0]}
Angles == {TRI_ANG}

-----------------------------------------------------------------------------
(* The state machine: from the idle state, one call of one function *)

Idle == [none |-> TRUE]

Init ==
    /\ fn = "idle"
    /\ arg = Idle
    /\ out = [status |-> "none"]
    /\ raised = {}

Call_heuristic_bond_distance ==
    /\ fn = "idle"
    /\ \E gra \in Graphs, key1 \in SmallKeys, key2 \in SmallKeys, check \in BOOLEAN :
        /\ fn' = "heuristic_bond_distance"
        /\ arg' = [gra |-> gra, key1 |-> key1, key2 |-> key2, check |-> check]
        /\ out' = heuristic_bond_distance(gra, key1, key2, check)
    /\ UNCHANGED raised

Call_heuristic_bond_angle ==
    /\ fn = "idle"
    /\ \E gra \in Graphs, key1 \in SmallKeys, key2 \in SmallKeys,
          key3 \in SmallKeys, check \in BOOLEAN :
        /\ fn' = "heuristic_bond_angle"
        /\ arg' = [gra |-> gra, key1 |-> key1, key2 |-> key2, key3 |-> key3,
                   check |-> check]
        /\ out' = heuristic_bond_angle(gra, key1, key2, key3, check)
    /\ UNCHANGED raised

Call_ring_arc_bond_angle ==
    /\ fn = "idle"
    /\ \E num \in 1..MaxRingLen, end_dist \in Distances, bond_dist \in BondDists,
          sol \in Sols :
        /\ fn' = "ring_arc_bond_angle"
        /\ arg' = [num |-> num, end_dist |-> end_dist, bond_dist |-> bond_dist,
                   sol |-> sol]
        /\ out' = ring_arc_bond_angle(num, end_dist, bond_dist, sol)
    /\ UNCHANGED raised

Call_chain_zmatrix ==
    /\ fn = "idle"
    /\ \E gra \in Graphs, chain_keys \in ChainSeqs :
        /\ fn' = "chain_zmatrix"
        /\ arg' = [gra |-> gra, chain_keys |-> chain_keys]
        /\ out' = chain_zmatrix(gra, chain_keys)
    /\ UNCHANGED raised

Call_ring_zmatrix ==
    /\ fn = "idle"
    /\ \E gra \in RingGraphs, ring_keys \in RingSeqs, bond_dist \in BondDists,
          end_dist \in Distances, sol \in Sols :
        /\ fn' = "ring_zmatrix"
        /\ arg' = [gra |-> gra, ring_keys |-> ring_keys, bond_dist |-> bond_dist,
                   end_dist |-> end_dist, sol |-> sol]
        /\ out' = ring_zmatrix(gra, ring_keys, bond_dist, end_dist, sol)
    /\ UNCHANGED raised

Call_ring_system_zmatrix ==
    /\ fn = "idle"
    /\ \E gra \in RingGraphs, decomp \in Decomps, sol1 \in Sols,
          end_dist \in Distances, sol2 \in Sols, ang1 \in Angles :
        /\ fn' = "ring_system_zmatrix"
        /\ arg' = [gra |-> gra, decomp |-> decomp, sol1 |-> sol1,
                   end_dist |-> end_dist, sol2 |-> sol2, ang1 |-> ang1]
        /\ out' = ring_system_zmatrix(gra, decomp, sol1, end_dist, sol2, ang1)
    /\ UNCHANGED raised

Next ==
    \/ Call_heuristic_bond_distance
    \/ Call_heuristic_bond_angle
    \/ Call_ring_arc_bond_angle
    \/ Call_chain_zmatrix
    \/ Call_ring_zmatrix
    \/ Call_ring_system_zmatrix

Spec == Init /\ [][Next]_vars

-----------------------------------------------------------------------------
(* What callers see of the failures.  Return hands the outcome of the      *)
(* finished call to its caller, which notes, for each of the three failure *)
(* situations, how the call ended; SpecErr is the calls of the functions   *)
(* that can fail in these ways, one after another.                         *)

Situation ==
    IF fn = "heuristic_bond_distance"
    THEN IF arg.check /\ {arg.key1, arg.key2} \notin bond_keys(arg.gra)
         THEN {"PreconditionViolation"} ELSE {}
    ELSE IF fn = "heuristic_bond_angle"
    THEN IF arg.check /\ ~(/\ {arg.key1, arg.key2} \in bond_keys(arg.gra)
                           /\ {arg.key3, arg.key2} \in bond_keys(arg.gra))
         THEN {"PreconditionViolation"}
         ELSE IF arg.gra.hyb_dct[arg.key2] \notin {1, 2, 3}
         THEN {"UnsupportedHybridization"} ELSE {}
    ELSE IF fn = "ring_arc_bond_angle"
    THEN IF out.solver /\ ~arg.sol.converged
         THEN {"NonConvergence"} ELSE {}
    ELSE {}

Return ==
    /\ fn # "idle"
    /\ raised' = raised \cup {<<s, out.status>> : s \in Situation}
    /\ fn' = "idle"
    /\ arg' = Idle
    /\ out' = [status |-> "none"]

NextErr ==
    \/ Call_heuristic_bond_distance
    \/ Call_heuristic_bond_angle
    \/ Call_ring_arc_bond_angle
    \/ Return

SpecErr == Init /\ [][NextErr]_vars

-----------------------------------------------------------------------------
(* The claims *)

\* the references of row r (0-based) of a chain or ring z-matrix
WindowRefs(r) ==
    <<IF r >= 1 THEN r - 1 ELSE None,
      IF r >= 2 THEN r - 2 ELSE None,
      IF r >= 3 THEN r - 3 ELSE None>>

\* consecutive keys are bonded and every inner key has hybridization 1, 2 or 3
AcceptedPath(gra, keys) ==
    /\ \A i \in 1..(Len(keys) - 1) : {keys[i], keys[i + 1]} \in DOMAIN gra.bnd_dct
    /\ \A i \in 2..(Len(keys) - 1) : gra.hyb_dct[keys[i]] \in {1, 2, 3}

\* C1: for distinct keys chain_zmatrix appends one row per key in input
\* order: whenever it is left, the rows so far belong to the first keys, row
\* i references exactly rows i-1, i-2, i-3 as far as they exist (so only
\* rows < i, and 0, 1, 2 references in rows 0, 1, 2); it returns exactly when
\* the keys are a path the heuristics accept, and then there are n rows and
\* the returned rows are 0, 1, ..., n-1 in input order.
C1_ChainRows ==
    (fn = "chain_zmatrix" /\ Distinct(arg.chain_keys)) =>
        LET keys == arg.chain_keys
            n == Len(keys)
        IN  /\ Len(out.zma) <= n
            /\ \A i \in 1..Len(out.zma) :
                /\ out.zma[i].key_row = WindowRefs(i - 1)
                /\ \A j \in 1..3 : out.zma[i].key_row[j] < i - 1
                /\ Cardinality({j \in 1..3 : out.zma[i].key_row[j] # None})
                     = (IF i - 1 < 3 THEN i - 1 ELSE 3)
                /\ out.row_dct[keys[i]] = i - 1
            /\ (out.status = "ok") <=> AcceptedPath(arg.gra, keys)
            /\ out.status = "ok" =>
                /\ Len(out.zma) = n
                /\ out.rows = [i \in 1..n |-> i - 1]

\* C1 witness: a chain of four distinct keys was built
C1_Witness ==
    /\ fn = "chain_zmatrix"
    /\ Distinct(arg.chain_keys)
    /\ Len(arg.chain_keys) = 4
    /\ out.status = "ok"
    /\ Len(out.zma) = 4
    /\ out.zma[4].key_row = <<2, 1, 0>>

RsysRing == arg.decomp[1]
RsysArc == arg.decomp[2]

\* C2 (as claimed): a ring of 6 keys and one arc of 4 keys, its ends in the
\* ring and its 2 inner keys new, give a composite with one row per distinct
\* key, 8 rows.
C2_RowCount ==
    (/\ fn = "ring_system_zmatrix"
     /\ Len(arg.decomp) = 2
     /\ Len(RsysRing) = 6 /\ Distinct(RsysRing)
     /\ Len(RsysArc) = 4 /\ Distinct(RsysArc)
     /\ {RsysArc[1], RsysArc[4]} \subseteq SeqKeys(RsysRing)
     /\ {RsysArc[2], RsysArc[3]} \cap SeqKeys(RsysRing) = {}
     /\ out.status = "ok")
    => /\ Cardinality(SeqKeys(RsysRing) \cup SeqKeys(RsysArc)) = 8
       /\ Len(out.zma) = 8

\* every arc ends in keys placed by the ring or an earlier arc
ValidDecomp(decomp) ==
    \A a \in 2..Len(decomp) :
        {decomp[a][1], decomp[a][Len(decomp[a])]}
            \subseteq UNION {SeqKeys(decomp[b]) : b \in 1..(a - 1)}

\* C3 (as claimed): for a primary ring and k >= 0 arcs (the solver
\* converging), ring_system_zmatrix ends normally with all k arcs merged, and
\* hands the composite back to the caller.
C3_AllArcsMerged ==
    (/\ fn = "ring_system_zmatrix"
     /\ ValidDecomp(arg.decomp)
     /\ arg.sol1.converged /\ arg.sol2.converged)
    => /\ out.status = "ok"
       /\ out.merged = Len(arg.decomp) - 1
       /\ out.ret.given
       /\ out.ret.zma = out.zma

\* C4 (as claimed): 180 degrees without the solver whenever
\* end_dist >= (num-1)*bond_dist, the boundary included; the solver only when
\* end_dist < (num-1)*bond_dist.
C4_Original ==
    fn = "ring_arc_bond_angle" =>
        /\ arg.end_dist >= (arg.num - 1) * arg.bond_dist
             => (out.status = "ok" /\ out.val = 1800000 /\ ~out.solver)
        /\ out.solver => arg.end_dist < (arg.num - 1) * arg.bond_dist

\* C4 (amended): 180 degrees without the solver whenever
\* end_dist > (num-1)*bond_dist; the solver is entered whenever
\* end_dist <= (num-1)*bond_dist, the boundary included.
C4_StrictThreshold ==
    fn = "ring_arc_bond_angle" =>
        /\ arg.end_dist > (arg.num - 1) * arg.bond_dist
             => (out.status = "ok" /\ out.val = 1800000 /\ ~out.solver)
        /\ arg.end_dist <= (arg.num - 1) * arg.bond_dist => out.solver

\* C4 witness: the boundary case num = 2, end_dist = bond_dist went to the
\* solver
C4_Witness ==
    /\ fn = "ring_arc_bond_angle"
    /\ arg.num = 2
    /\ arg.end_dist = arg.bond_dist
    /\ out.solver

\* C5 (as claimed): ring closure for fewer than 2 atoms is rejected, by
\* ring_arc_bond_angle with num = 1 and by ring_zmatrix with one key.
C5_Rejected ==
    /\ (fn = "ring_arc_bond_angle" /\ arg.num = 1) => out.status # "ok"
    /\ (fn = "ring_zmatrix" /\ Len(arg.ring_keys) = 1) => out.status # "ok"

\* C6: heuristic_bond_angle fails when check is on and key1, key3 are not
\* both neighbours of key2; otherwise the centre's hybridization alone
\* decides: 109.4712 for 3, 120 for 2, 180 for 1, an error for any other.
C6_BondAngle ==
    fn = "heuristic_bond_angle" =>
        LET hyb2 == arg.gra.hyb_dct[arg.key2]
            bonded == /\ {arg.key1, arg.key2} \in DOMAIN arg.gra.bnd_dct
                      /\ {arg.key3, arg.key2} \in DOMAIN arg.gra.bnd_dct
        IN  IF arg.check /\ ~bonded
            THEN out.status # "ok" /\ out.val = None
            ELSE /\ hyb2 = 3 => (out.status = "ok" /\ out.val = 1094712)
                 /\ hyb2 = 2 => (out.status = "ok" /\ out.val = 1200000)
                 /\ hyb2 = 1 => (out.status = "ok" /\ out.val = 1800000)
                 /\ hyb2 \notin {1, 2, 3} => (out.status # "ok" /\ out.val = None)

\* C6 witness: a checked call on a bonded triple with an sp3 centre returned
\* the tetrahedral angle
C6_Witness ==
    /\ fn = "heuristic_bond_angle"
    /\ arg.check
    /\ arg.key1 # arg.key3
    /\ arg.gra.hyb_dct[arg.key2] = 3
    /\ out.status = "ok"
    /\ out.val = 1094712

\* C7 (as claimed): the three failure situations reach the caller as errors
\* of three different kinds, none as a returned value.
C7_Distinct ==
    \A p \in raised, q \in raised :
        /\ p[2] # "ok"
        /\ p[1] # q[1] => p[2] # q[2]

\* C8 (as claimed): for n >= 2 distinct keys, row i of ring_zmatrix has the
\* references i-1, i-2, i-3 as far as they exist and the values
\* (bond_dist, A, 0) on the coordinates that have a reference only.
C8_RingRows ==
    (/\ fn = "ring_zmatrix"
     /\ Len(arg.ring_keys) >= 2 /\ Distinct(arg.ring_keys)
     /\ out.status = "ok")
    => \A i \in 1..Len(out.zma) :
        /\ out.zma[i].key_row = WindowRefs(i - 1)
        /\ out.zma[i].val_row =
            <<IF i - 1 >= 1 THEN arg.bond_dist ELSE None,
              IF i - 1 >= 2 THEN out.bond_ang ELSE None,
              IF i - 1 >= 3 THEN 0 ELSE None>>

\* C9 (as claimed): the splice replaces the ring row of the arc's first
\* end, and the adjacent reference row is that row minus 1, or plus 1 when
\* it is row 0.
C9_Original ==
    (fn = "ring_system_zmatrix" /\ out.status = "ok") =>
        /\ RsysRing[out.rows.row3 + 1] = RsysArc[1]
        /\ out.rows.row1 = (IF out.rows.row3 > 0 THEN out.rows.row3 - 1
                            ELSE out.rows.row3 + 1)

\* C9 (amended): the splice replaces the ring row of the arc's first end;
\* the adjacent reference row is the row of the arc's SECOND end minus 1, or
\* plus 1 when the second end is row 0.
C9_SpliceRows ==
    (fn = "ring_system_zmatrix" /\ out.status = "ok") =>
        /\ RsysRing[out.rows.row3 + 1] = RsysArc[1]
        /\ RsysRing[out.rows.row2 + 1] = RsysArc[Len(RsysArc)]
        /\ out.rows.row1 = (IF out.rows.row2 > 0 THEN out.rows.row2 - 1
                            ELSE out.rows.row2 + 1)

\* C9 witness: an arc from the first ring atom (row 0) to the ring atom of
\* row 3 was spliced in, with adjacent row 2
C9_Witness ==
    /\ fn = "ring_system_zmatrix"
    /\ out.status = "ok"
    /\ out.rows = [row3 |-> 0, row2 |-> 3, row1 |-> 2]
    /\ Len(out.zma) = Len(RsysRing) + Len(RsysArc) - 1

\* C10 (as claimed): for an arc between two distinct ring atoms the two
\* reference rows handed to the splice are rows of the ring, differ from
\* each other and from the replaced row, and are earlier than the rows they
\* anchor (the arc rows appended after the ring).
C10_WellFormed ==
    (fn = "ring_system_zmatrix" /\ out.status = "ok") =>
        LET n == Len(RsysRing)
            r == out.rows
        IN  /\ r.row2 \in 0..(n - 1)
            /\ r.row1 \in 0..(n - 1)
            /\ r.row1 # r.row2
            /\ r.row1 # r.row3
            /\ r.row2 # r.row3
            /\ \A i \in (n + 1)..Len(out.zma) : \A j \in 1..3 :
                  out.zma[i].key_row[j] < i - 1

====
